---------------------------- MODULE Spec2Model ----------------------------
(* Model of the two-stage ETL pipeline: scripts/fetch_data.py writes a    *)
(* CSV snapshot, scripts/loading_RDS.py reads the latest snapshot,         *)
(* validates it and appends it to the PostgreSQL table statcast_data.      *)
(* A frame (DataFrame) is [cols : set of column names, rows : sequence of  *)
(* functions from cols to values]. Integer cells are positive numbers or   *)
(* NA; a description cell is the length of its string, or NA.              *)
EXTENDS Integers, Sequences, FiniteSets, TLC

\* ------------------------------------------------------------ bounds
\* Largest number of rows the upstream source returns in one fetch.
MaxRows == 3

\* ------------------------------------------------- program constants
NA == -1

db_desc_limit == 100

pk_cols == <<"game_pk", "at_bat_number", "pitch_number">>

COLUMNS_TO_KEEP ==
  << "pitch_type", "game_date", "release_speed", "release_pos_x", "release_pos_z",
     "player_name", "batter", "pitcher", "events", "description", "zone",
     "des", "game_type", "stand", "p_throws", "home_team", "away_team",
     "type", "hit_location", "bb_type", "balls", "strikes", "game_year",
     "pfx_x", "pfx_z", "plate_x", "plate_z", "on_3b", "on_2b", "on_1b",
     "outs_when_up", "inning", "inning_topbot", "hc_x", "hc_y",
     "sv_id", "vx0", "vy0", "vz0", "ax", "ay", "az",
     "sz_top", "sz_bot", "hit_distance_sc", "launch_speed", "launch_angle",
     "effective_speed", "release_spin_rate", "release_extension", "game_pk",
     "fielder_2", "fielder_3", "fielder_4", "fielder_5",
     "fielder_6", "fielder_7", "fielder_8", "fielder_9",
     "estimated_ba_using_speedangle", "estimated_woba_using_speedangle",
     "woba_value", "woba_denom", "babip_value", "iso_value",
     "launch_speed_angle", "at_bat_number", "pitch_number", "pitch_name",
     "home_score", "away_score", "bat_score", "fld_score", "post_away_score",
     "post_home_score", "post_bat_score", "post_fld_score" >>

\* ------------------------------------------------------------ helpers
Range(s) == {s[i] : i \in DOMAIN s}

MaxOf(S) == IF S = {} THEN 0 ELSE CHOOSE m \in S : \A x \in S : x <= m

\* ------------------------------------------------ inputs of the model
\* What the upstream source can return for one pitch: the key triple and the
\* description (its length). Two well-formed keys, each met with two
\* different descriptions, an overlong description, a missing description,
\* and rows with one or two missing key columns.
RowValues ==
  << [game_pk |-> 1,  at_bat_number |-> 1,  pitch_number |-> 1,  description |-> 100],
     [game_pk |-> 1,  at_bat_number |-> 1,  pitch_number |-> 1,  description |-> 101],
     [game_pk |-> 1,  at_bat_number |-> 1,  pitch_number |-> 2,  description |-> 100],
     [game_pk |-> 1,  at_bat_number |-> 1,  pitch_number |-> 2,  description |-> NA],
     [game_pk |-> NA, at_bat_number |-> 1,  pitch_number |-> 1,  description |-> 100],
     [game_pk |-> 1,  at_bat_number |-> NA, pitch_number |-> NA, description |-> 101] >>

\* The row-sets of 1..n rows. No operation of the pipeline depends on the
\* order of the rows, so each row-set is taken once, in the order of RowValues.
RowSets(n) ==
  LET picks == UNION {[1..k -> DOMAIN RowValues] : k \in 1..n}
      sorted == {s \in picks : \A i \in DOMAIN s : i = Len(s) \/ s[i] <= s[i + 1]}
  IN  {[i \in DOMAIN s |-> RowValues[s[i]]] : s \in sorted}

\* The columns the load stage reads by name.
BasicColumns == {"game_pk", "at_bat_number", "pitch_number", "description"}

\* Other column sets the upstream source can return: with a further canonical
\* column ("zone"), a column that differs from it by case only ("Zone") and a
\* column outside the canonical list ("umpire"); and sets lacking a column the
\* load stage needs.
OtherColumns ==
  { {"game_pk", "at_bat_number", "pitch_number", "description", "zone", "umpire"},
    {"game_pk", "at_bat_number", "pitch_number", "description", "Zone", "umpire"},
    {"game_pk", "at_bat_number", "pitch_number", "Zone"},
    {"game_pk", "at_bat_number", "description", "zone"} }

\* A cell of a column the model gives no values to holds 1.
RawFrame(cols, vals) ==
  [cols |-> cols,
   rows |-> [i \in DOMAIN vals |->
               [c \in cols |-> IF c \in DOMAIN vals[i] THEN vals[i][c] ELSE 1]]]

\* The upstream results of the model: every row-set with the basic columns,
\* and every single row with each of the other column sets.
SourceFrames ==
  {RawFrame(BasicColumns, vals) : vals \in RowSets(MaxRows)}
  \cup {RawFrame(cols, <<RowValues[k]>>) : cols \in OtherColumns, k \in DOMAIN RowValues}

\* ------------------------------------------------------- fetch stage
\* Faulty variant: the selection step keeps every column of the upstream result.
select_all_columns(df, columns_to_keep) == df

clean_and_select_columns(df, columns_to_keep) ==
  LET existing_columns == SelectSeq(columns_to_keep, LAMBDA col : col \in df.cols)
      keep == Range(existing_columns)
  IN  [cols |-> keep,
       rows |-> [i \in DOMAIN df.rows |-> [c \in keep |-> df.rows[i][c]]]]


\* -------------------------------------------------------- load stage
\* str.lower() on the column names the model uses.
Lower(col) == IF col = "Zone" THEN "zone" ELSE col

NoFrame == [cols |-> {}, rows |-> <<>>]

\* pd.read_csv followed by df.columns = [col.lower() for col in df.columns].
ReadCsv(file) ==
  LET lowered == {Lower(c) : c \in file.cols}
  IN  [cols |-> lowered,
       rows |-> [i \in DOMAIN file.rows |->
                   [c \in lowered |->
                      file.rows[i][CHOOSE o \in file.cols : Lower(o) = c]]]]

Msg(m, n) == [msg |-> m, n |-> n]

Key(row) == <<row["game_pk"], row["at_bat_number"], row["pitch_number"]>>

\* Faulty variant: the null cells of the key columns, so that a row with two null key
\* columns counts twice.
null_pk_cells(df) ==
  {c \in (DOMAIN df.rows) \X (DOMAIN pk_cols) : df.rows[c[1]][pk_cols[c[2]]] = NA}

\* df[pk_cols].isnull().any(axis=1): the rows with a null in some key column.
null_pk_rows(df) ==
  {i \in DOMAIN df.rows : \E k \in DOMAIN pk_cols : df.rows[i][pk_cols[k]] = NA}

\* Faulty variant: duplicated(keep='first'), which leaves the first row of a group out.
duplicatesKeepFirst(df) ==
  {i \in DOMAIN df.rows :
     \E j \in DOMAIN df.rows : j < i /\ Key(df.rows[j]) = Key(df.rows[i])}

\* df.duplicated(subset=pk_cols, keep=False): every row whose key triple is
\* also the key triple of another row (pandas compares NA equal to NA).
duplicates(df) ==
  {i \in DOMAIN df.rows :
     \E j \in DOMAIN df.rows : j # i /\ Key(df.rows[j]) = Key(df.rows[i])}

\* astype(str).str.len(): a missing description is the string "nan".
StrLen(v) == IF v = NA THEN 3 ELSE v

max_desc_len(df) == MaxOf({StrLen(df.rows[i]["description"]) : i \in DOMAIN df.rows})

\* Faulty variant: check 1 reports the null keys and goes on.
Check1NoExit(df) ==
  IF ~(Range(pk_cols) \subseteq df.cols)
  THEN [out |-> <<Msg("ERROR_PROCESSING", 0)>>, exit |-> TRUE]
  ELSE IF Cardinality(null_pk_rows(df)) > 0
       THEN [out |-> <<Msg("ERROR_NULL_PK", Cardinality(null_pk_rows(df)))>>, exit |-> FALSE]
       ELSE [out |-> <<Msg("CHECK1_PASSED", 0)>>, exit |-> FALSE]

\* Faulty variant: check 2 reports the duplicates and goes on to the load.
Check2NoExit(df) ==
  IF Cardinality(duplicates(df)) > 0
  THEN [out |-> <<Msg("ERROR_DUPLICATE_PK", Cardinality(duplicates(df)))>>, exit |-> FALSE]
  ELSE [out |-> <<Msg("CHECK2_PASSED", 0)>>, exit |-> FALSE]

\* Faulty variant: an overlong description ends the run (strict mode).
Check3Strict(df) ==
  IF "description" \notin df.cols
  THEN [out |-> <<Msg("ERROR_PROCESSING", 0)>>, exit |-> TRUE]
  ELSE IF max_desc_len(df) > db_desc_limit
       THEN [out |-> <<Msg("WARNING_DESC_LEN", max_desc_len(df))>>, exit |-> TRUE]
       ELSE [out |-> <<Msg("CHECK3_PASSED", max_desc_len(df))>>, exit |-> FALSE]

\* Each check gives what it prints and whether the run leaves the try block
\* through sys.exit(1) (directly, or through the except clause after a
\* KeyError on a missing column).
Check1(df) ==
  IF ~(Range(pk_cols) \subseteq df.cols)
  THEN [out |-> <<Msg("ERROR_PROCESSING", 0)>>, exit |-> TRUE]
  ELSE LET num_null_pk_rows == Cardinality(null_pk_rows(df))
       IN  IF num_null_pk_rows > 0
           THEN [out |-> <<Msg("ERROR_NULL_PK", num_null_pk_rows)>>, exit |-> TRUE]
           ELSE [out |-> <<Msg("CHECK1_PASSED", 0)>>, exit |-> FALSE]

Check2(df) ==
  LET num_duplicates == Cardinality(duplicates(df))
  IN  IF num_duplicates > 0
      THEN [out |-> <<Msg("ERROR_DUPLICATE_PK", num_duplicates)>>, exit |-> TRUE]
      ELSE [out |-> <<Msg("CHECK2_PASSED", 0)>>, exit |-> FALSE]

Check3(df) ==
  IF "description" \notin df.cols
  THEN [out |-> <<Msg("ERROR_PROCESSING", 0)>>, exit |-> TRUE]
  ELSE IF max_desc_len(df) > db_desc_limit
       THEN [out |-> <<Msg("WARNING_DESC_LEN", max_desc_len(df))>>, exit |-> FALSE]
       ELSE [out |-> <<Msg("CHECK3_PASSED", max_desc_len(df))>>, exit |-> FALSE]

\* The checks in the order of the try block; sys.exit(1) ends the run at once.
Validation(df) ==
  LET r1 == Check1(df)
  IN  IF r1.exit THEN r1
      ELSE LET r2 == Check2(df)
           IN  IF r2.exit THEN [out |-> r1.out \o r2.out, exit |-> TRUE]
               ELSE LET r3 == Check3(df)
                    IN  [out |-> r1.out \o r2.out \o r3.out, exit |-> r3.exit]

\* Faulty variant: the table has no primary key, so only an overlong description or a
\* failed connection stops the append.
ToSqlNoPrimaryKey(table, df) ==
  LET toolong == \E i \in DOMAIN df.rows :
                    /\ "description" \in df.cols
                    /\ df.rows[i]["description"] # NA
                    /\ df.rows[i]["description"] > db_desc_limit
  IN  (IF toolong THEN {} ELSE {[table |-> table \o df.rows, result |-> "ok"]})
      \cup {[table |-> table, result |-> "Exception"]}

\* df.to_sql(if_exists='append', method='multi') against the table with
\* PRIMARY KEY (game_pk, at_bat_number, pitch_number) and description
\* VARCHAR(100): one transaction over all chunks. A key that is null, already
\* in the table or met twice in the frame raises IntegrityError; an overlong
\* description raises another error; which one is raised when both apply is
\* the store's choice; the connection may also fail. Every error rolls the
\* transaction back.
ToSql(table, df) ==
  LET keys      == {Key(table[i]) : i \in DOMAIN table}
      integrity == \E i \in DOMAIN df.rows :
                      \/ \E k \in DOMAIN pk_cols : df.rows[i][pk_cols[k]] = NA
                      \/ Key(df.rows[i]) \in keys
                      \/ \E j \in DOMAIN df.rows :
                            j # i /\ Key(df.rows[j]) = Key(df.rows[i])
      toolong   == \E i \in DOMAIN df.rows :
                      /\ "description" \in df.cols
                      /\ df.rows[i]["description"] # NA
                      /\ df.rows[i]["description"] > db_desc_limit
  IN  (IF integrity THEN {[table |-> table, result |-> "IntegrityError"]} ELSE {})
      \cup (IF toolong THEN {[table |-> table, result |-> "Exception"]} ELSE {})
      \cup (IF ~integrity /\ ~toolong
            THEN {[table |-> table \o df.rows, result |-> "ok"]} ELSE {})
      \cup {[table |-> table, result |-> "Exception"]}

\* ------------------------------------------------------------- state
VARIABLES
  data_raw,        \* data/raw: the most recently modified CSV, if any
  source_columns,  \* columns of the upstream result the CSV was made from
  statcast_data,   \* rows of the target table, in insertion order
  pc,              \* loading_RDS.py: "idle", "connect", "load", "exited"
  df,              \* the frame read by the current (or last) load run
  out,             \* what that run printed, in order
  engine,          \* "unset", "created", "disposed"
  exit_code,       \* "none" while running, then "0" or "1"
  loader_invoked,  \* df.to_sql was called in this run
  load_result,     \* "none", "ok", "IntegrityError", "Exception"
  table_before,    \* the table when this run started
  prev_result      \* load_result of the run just before on the same CSV

vars == <<data_raw, source_columns, statcast_data, pc, df, out, engine,
          exit_code, loader_invoked, load_result, table_before, prev_result>>

Init ==
  /\ data_raw = <<>>
  /\ source_columns = {}
  /\ statcast_data = <<>>
  /\ pc = "idle"
  /\ df = NoFrame
  /\ out = <<>>
  /\ engine = "unset"
  /\ exit_code = "none"
  /\ loader_invoked = FALSE
  /\ load_result = "none"
  /\ table_before = <<>>
  /\ prev_result = "none"

\* No load process is alive while the fetch script runs.
NoLoadRun ==
  /\ pc' = "idle"
  /\ df' = NoFrame
  /\ out' = <<>>
  /\ engine' = "unset"
  /\ exit_code' = "none"
  /\ loader_invoked' = FALSE
  /\ load_result' = "none"
  /\ table_before' = statcast_data
  /\ prev_result' = "none"

\* fetch_data.py, data found: select the columns and write the CSV.
FetchData ==
  /\ pc \in {"idle", "exited"}
  /\ \E statcast_df \in SourceFrames :
        /\ data_raw' = <<clean_and_select_columns(statcast_df, COLUMNS_TO_KEEP)>>
        /\ source_columns' = statcast_df.cols
  /\ NoLoadRun
  /\ UNCHANGED statcast_data

\* fetch_data.py, player not found or no data: sys.exit(1), nothing written.
FetchNoData ==
  /\ pc \in {"idle", "exited"}
  /\ NoLoadRun
  /\ UNCHANGED <<data_raw, source_columns, statcast_data>>

\* loading_RDS.py steps 1-2: find the CSV, read it, validate it.
ReadAndValidate ==
  /\ pc \in {"idle", "exited"}
  /\ prev_result' = IF pc = "exited" THEN load_result ELSE "none"
  /\ engine' = "unset"
  /\ loader_invoked' = FALSE
  /\ load_result' = "none"
  /\ table_before' = statcast_data
  /\ IF data_raw = <<>>
     THEN /\ df' = NoFrame
          /\ out' = <<Msg("NO_CSV", 0)>>
          /\ exit_code' = "1"
          /\ pc' = "exited"
     ELSE LET frame == ReadCsv(data_raw[1])
              v     == Validation(frame)
          IN  /\ df' = frame
              /\ out' = v.out
              /\ exit_code' = IF v.exit THEN "1" ELSE "none"
              /\ pc' = IF v.exit THEN "exited" ELSE "connect"
  /\ UNCHANGED <<data_raw, source_columns, statcast_data>>

\* Step 3: create_engine and the connection test.
Connect ==
  /\ pc = "connect"
  /\ \E r \in {"ok", "create_engine_raises", "connect_raises"} :
        /\ engine' = IF r = "create_engine_raises" THEN "unset" ELSE "created"
        /\ out' = Append(out, Msg(IF r = "ok" THEN "CONNECTED" ELSE "ERROR_CONNECTING", 0))
        /\ exit_code' = IF r = "ok" THEN "none" ELSE "1"
        /\ pc' = IF r = "ok" THEN "load" ELSE "exited"
  /\ UNCHANGED <<data_raw, source_columns, statcast_data, df, loader_invoked,
                 load_result, table_before, prev_result>>

\* Step 4: df.to_sql, the except clauses and the finally clause.
Load ==
  /\ pc = "load"
  /\ loader_invoked' = TRUE
  /\ \E o \in ToSql(statcast_data, df) :
        /\ statcast_data' = o.table
        /\ load_result' = o.result
        /\ out' = out \o (IF o.result = "ok"
                          THEN <<Msg("LOADED", Len(df.rows)), Msg("FINISHED", 0)>>
                          ELSE IF o.result = "IntegrityError"
                          THEN <<Msg("INTEGRITY_ERROR", 0), Msg("FINISHED", 0)>>
                          ELSE <<Msg("ERROR_LOADING", 0)>>)
        /\ exit_code' = IF o.result = "Exception" THEN "1" ELSE "0"
  /\ engine' = "disposed"
  /\ pc' = "exited"
  /\ UNCHANGED <<data_raw, source_columns, df, table_before, prev_result>>

Next == FetchData \/ FetchNoData \/ ReadAndValidate \/ Connect \/ Load

Spec == Init /\ [][Next]_vars

\* ------------------------------------------------- claim vocabulary
\* A load run has read a row-set with the columns the checks read by name.
HasRowSet == df # NoFrame /\ BasicColumns \subseteq df.cols

HasKeyColumns == df # NoFrame /\ Range(pk_cols) \subseteq df.cols

FullKey(row) ==
  row["game_pk"] # NA /\ row["at_bat_number"] # NA /\ row["pitch_number"] # NA

\* Number of rows of frame f that carry key k.
KeyCount(f, k) == Cardinality({i \in DOMAIN f.rows : Key(f.rows[i]) = k})

SomeNullKey == \E i \in DOMAIN df.rows : ~FullKey(df.rows[i])

SomeSharedKey == \E i \in DOMAIN df.rows : KeyCount(df, Key(df.rows[i])) >= 2

TableKeys(table) == {Key(table[i]) : i \in DOMAIN table}

Msgs == [i \in DOMAIN out |-> out[i].msg]

Printed(m) == \E i \in DOMAIN out : out[i].msg = m

Overlong(row) == row["description"] # NA /\ row["description"] > db_desc_limit

\* ------------------------------------------------------------ claims
\* C1: when the row-set read from the CSV has a null in a primary-key column
\* or a primary-key triple that occurs more than once, the run never calls
\* to_sql and leaves the table as it found it.
C1_NoLoadOnBadKeys ==
  (HasKeyColumns /\ (SomeNullKey \/ SomeSharedKey))
    => /\ ~loader_invoked
       /\ pc = "exited"
       /\ exit_code = "1"
       /\ engine = "unset"
       /\ statcast_data = table_before

C1_Witness ==
  /\ HasKeyColumns
  /\ SomeSharedKey
  /\ ~SomeNullKey
  /\ pc = "exited"
  /\ statcast_data # <<>>

\* C2: for a row-set without null keys in which some key triple is shared,
\* validation fails and the reported duplicate count is the number of all rows
\* that belong to a shared key (every occurrence).
C2_DuplicateCount ==
  (HasKeyColumns /\ ~SomeNullKey /\ SomeSharedKey)
    => /\ exit_code = "1"
       /\ Len(out) = 2
       /\ out[2].msg = "ERROR_DUPLICATE_PK"
       /\ out[2].n = Len(df.rows)
                       - Cardinality({i \in DOMAIN df.rows :
                                        KeyCount(df, Key(df.rows[i])) = 1})

C2_Witness ==
  /\ HasKeyColumns
  /\ Len(df.rows) = 3
  /\ Printed("ERROR_DUPLICATE_PK")
  /\ out[2].n = 2

\* C3: for a row-set with a null in some key column, validation fails and the
\* reported count is the number of rows with at least one null key column.
C3_NullCount ==
  (HasKeyColumns /\ SomeNullKey)
    => /\ exit_code = "1"
       /\ Len(out) = 1
       /\ out[1].msg = "ERROR_NULL_PK"
       /\ out[1].n = Len(df.rows)
                       - Cardinality({i \in DOMAIN df.rows : FullKey(df.rows[i])})

C3_Witness ==
  /\ HasKeyColumns
  /\ Len(df.rows) = 3
  /\ Printed("ERROR_NULL_PK")
  /\ out[1].n = 2
  /\ \E i \in DOMAIN df.rows :
        df.rows[i]["at_bat_number"] = NA /\ df.rows[i]["pitch_number"] = NA

C5_Idempotent ==
  (pc = "exited" /\ loader_invoked)
    => /\ prev_result = "ok"
            => /\ statcast_data = table_before
               /\ load_result # "ok"
               /\ \A i \in DOMAIN df.rows :
                     /\ Key(df.rows[i]) \in TableKeys(table_before)
                     /\ KeyCount([rows |-> statcast_data], Key(df.rows[i])) = 1
       /\ prev_result = "IntegrityError" => statcast_data = table_before

C5_Witness ==
  /\ pc = "exited"
  /\ loader_invoked
  /\ prev_result = "ok"
  /\ load_result = "IntegrityError"
  /\ Len(df.rows) = 2
  /\ Len(statcast_data) = 2

\* C6 (as claimed): a primary-key conflict during the load does not abort the
\* batch: every row of the validated row-set whose key was not in the table
\* is in the table after the run.
C6_AsClaimed ==
  (/\ pc = "exited"
   /\ load_result = "IntegrityError"
   /\ \A i \in DOMAIN df.rows : ~Overlong(df.rows[i]))
    => \A i \in DOMAIN df.rows :
          Key(df.rows[i]) \notin TableKeys(table_before)
            => df.rows[i] \in Range(statcast_data)

\* C7: the table holds at most one row for each key triple and no row with a
\* null in a key column.
C7_TableKeyed ==
  /\ \A i, j \in DOMAIN statcast_data :
        i # j => Key(statcast_data[i]) # Key(statcast_data[j])
  /\ \A i \in DOMAIN statcast_data : FullKey(statcast_data[i])

C7_Witness ==
  /\ Len(statcast_data) = 2
  /\ Len(table_before) = 2
  /\ pc = "exited"
  /\ prev_result = "none"
  /\ load_result = "IntegrityError"
  /\ Len(df.rows) = 2

\* C8 (as claimed): once the engine has been created, it is disposed before
\* the process ends, on every exit path.
C8_AsClaimed ==
  (pc = "exited" /\ engine # "unset") => engine = "disposed"

\* C9 (as claimed): every check runs whatever the earlier ones found: a
\* row-set with null keys and shared keys gets both diagnostics, and the
\* string-length check still runs after a key violation.
C9_AsClaimed ==
  (HasRowSet /\ (SomeNullKey \/ SomeSharedKey))
    => /\ Printed("WARNING_DESC_LEN") \/ Printed("CHECK3_PASSED")
       /\ (SomeNullKey /\ SomeSharedKey)
             => (Printed("ERROR_NULL_PK") /\ Printed("ERROR_DUPLICATE_PK"))

\* C9 (amended): the checks run in the order null-PK, duplicate-PK,
\* string-length, and the run stops at the first key violation: with a null
\* key only the null-PK diagnostic is printed; with shared keys and no null
\* key, check 1 passes and the duplicate diagnostic is printed; the
\* string-length check runs only when both key checks passed.
C9_StopsAtFirstViolation ==
  HasRowSet
    => /\ SomeNullKey => Msgs = <<"ERROR_NULL_PK">>
       /\ (~SomeNullKey /\ SomeSharedKey)
             => Msgs = <<"CHECK1_PASSED", "ERROR_DUPLICATE_PK">>
       /\ (~SomeNullKey /\ ~SomeSharedKey)
             => /\ Len(out) >= 3
                /\ out[1].msg = "CHECK1_PASSED"
                /\ out[2].msg = "CHECK2_PASSED"
                /\ out[3].msg \in {"WARNING_DESC_LEN", "CHECK3_PASSED"}

C9_Witness ==
  /\ HasRowSet
  /\ SomeNullKey
  /\ SomeSharedKey
  /\ \E i \in DOMAIN df.rows : Overlong(df.rows[i])
  /\ Msgs = <<"ERROR_NULL_PK">>

\* C10: the columns of the rows a run writes to the table are exactly the
\* canonical columns that the upstream result has.
C10_ColumnsWritten ==
  (pc = "exited" /\ load_result = "ok")
    => /\ Len(statcast_data) = Len(table_before) + Len(df.rows)
       /\ \A i \in DOMAIN statcast_data :
             i > Len(table_before)
               => DOMAIN statcast_data[i] = Range(COLUMNS_TO_KEEP) \cap source_columns

C10_Witness ==
  /\ pc = "exited"
  /\ load_result = "ok"
  /\ "umpire" \in source_columns
  /\ "zone" \in source_columns
  /\ "zone" \in DOMAIN statcast_data[Len(statcast_data)]
  /\ "umpire" \notin DOMAIN statcast_data[Len(statcast_data)]

=============================================================================
